---- MODULE Spec2Model ----
(***************************************************************************)
(* State-machine model of lightbulb's command execution pipeline           *)
(* (src/lightbulb/commands/execution.py).  One ExecutionPipeline is built  *)
(* for one invocation context and run once; hooks are arbitrary callables  *)
(* that may call pipeline.fail any number of times and then return or      *)
(* raise.  Program positions of the coroutine _run are kept in pc; the     *)
(* positions at which the coroutine is suspended (a hook or the invocation *)
(* routine is awaited) are "in_hook" and "invoking".                       *)
(***************************************************************************)
EXTENDS Integers, Sequences, FiniteSets, TLC

\* ---------------------------------------------------------------- bounds
\* longest step order handed to the pipeline constructor
MaxOrderLen == 2
\* calls of pipeline.fail made by user code (hooks, other callers) in a run
MaxFailCalls == 2
\* constructions of an ExecutionStep attempted by user code
MaxStepCalls == 3
\* longest hooks argument of a command declaration
MaxRawHooks == 2
\* most class attributes of a command declaration
MaxAttrs == 3
\* most option values a context supplies
MaxSupplied == 1
\* most loadables registered with a loader
MaxLoadables == 3

\* ---------------------------------------------------------------- values
Steps == {"CHECKS", "COOLDOWNS"}
Funcs == {"f1", "f2"}
Contexts == {"ctx1"}

\* Optional[T] is a sequence of length 0 (None) or 1
None == <<>>
Some(x) == <<x>>

\* what user code hands to fail: a message (str) or an exception
FailArgs == {[type |-> "str", val |-> "m1"], [type |-> "Exception", val |-> "e1"]}
\* what a hook or the invocation routine can raise and `except Exception` catches
Raisable == {x \in FailArgs : x.type # "str"}

NoOutcome == [type |-> "none", val |-> ""]
Returned == [type |-> "return", val |-> ""]

ExecutionHook(step, func) == [step |-> step, func |-> func]
AllHooks == {ExecutionHook(s, f) : s \in Steps, f \in Funcs}

HookFailedException(exc, hook, abort_) ==
    [kind |-> "HookFailedException", exc |-> exc, hook |-> Some(hook),
     abort |-> abort_, context |-> None]

InvocationFailedException(exc, ctx) ==
    [kind |-> "InvocationFailedException", exc |-> exc, hook |-> None,
     abort |-> FALSE, context |-> Some(ctx)]

VARIABLES
    command_hooks,  \* CommandData.hooks of the context's command (a set)
    context,        \* ExecutionPipeline._context
    remaining,      \* ExecutionPipeline._remaining
    hooks,          \* ExecutionPipeline._hooks: step -> list of hooks
    current_step,   \* ExecutionPipeline._current_step (Optional)
    current_hook,   \* ExecutionPipeline._current_hook (Optional)
    failures,       \* ExecutionPipeline._failures: insertion-ordered dict,
                    \*   a sequence of [key, val] entries
    abort,          \* ExecutionPipeline._abort (Optional)
    step_hooks,     \* local of _run
    pc,             \* position of _run
    raised,         \* causes of the PipelineFailedException raised by _run
    invokeLog,      \* arguments of the calls of the invocation routine
    order,          \* history: the order argument of the constructor
    invoked,        \* history: hooks invoked, each with its position in order
    failLog,        \* history: accepted fail calls, in the order made
    failCalls,      \* history: number of fail calls made by user code
    failOutcome,    \* what the latest fail call did: "none", "accepted", "rejected"
    hookOutcome,    \* how the latest hook finished (NoOutcome while none has)
    invokeResult    \* how the invocation routine finished

\* the registry of step names (ExecutionStep)
VARIABLES
    all_steps,      \* ExecutionStep.__all_steps
    step_objects,   \* names of the ExecutionStep objects constructed, in order
    step_arg,       \* name argument of the latest construction
    step_result,    \* its outcome: "none", "ok", "RuntimeError"
    step_calls      \* history: constructions attempted after the module was loaded

stepVars == <<all_steps, step_objects, step_arg, step_result, step_calls>>

pipelineVars == <<command_hooks, context, remaining, hooks, current_step, current_hook,
                  failures, abort, step_hooks, pc, raised, invokeLog, order, invoked,
                  failLog, failCalls, failOutcome, hookOutcome, invokeResult>>

\* the declaration of a command class (CommandMeta.__new__)
VARIABLES
    decl,           \* the class statement: bases, keyword arguments, attributes
    decl_result,    \* its outcome: "none", "ok", "TypeError"
    command_data    \* the CommandData built (Optional), hooks being command_hooks

metaVars == <<decl, decl_result, command_data>>

\* a command instance (CommandBase) and the calls made on it
VARIABLES
    current_context,        \* _current_context, with the fields the code reads
    resolved_option_cache,  \* _resolved_option_cache: option name -> Optional value
    last_call,              \* the method called last
    resolve_arg,            \* the option passed to _resolve_option last
    resolve_result,         \* what that call returned or raised
    first_resolved,         \* history: value first cached per name since _set_context
    cleared,                \* history: names cached when _set_context was last called
    defaulted               \* history: names resolved to a default since _set_context

resolveVars == <<current_context, resolved_option_cache, last_call, resolve_arg,
                 resolve_result, first_resolved, cleared, defaulted>>

\* a second invocation of the command, run by the same event loop
VARIABLES
    parked,     \* the pipeline and command instance of the invocation not running
    active      \* which of the two invocations is running

twoVars == <<parked, active>>

\* a Loader
VARIABLES
    loadables,          \* _loadables
    loader_pc,          \* "idle", or "removing" inside remove_from_client
    unload_index,       \* position of the for loop of remove_from_client
    unloaded,           \* history: the loadables whose unload was called
    unload_warnings,    \* the warnings logged by remove_from_client
    remove_result       \* how the last remove_from_client ended

loaderVars == <<loadables, loader_pc, unload_index, unloaded, unload_warnings,
                remove_result>>

\* the state outside the pipeline
ext == <<stepVars, metaVars, resolveVars, twoVars, loaderVars>>

vars == <<pipelineVars, ext>>

\* ---------------------------------------------------------------- helpers
SeqsUpTo(S, n) == UNION {[1..k -> S] : k \in 0..n}

Perms(S) == {s \in [1..Cardinality(S) -> S] : \A x \in S : \E i \in DOMAIN s : s[i] = x}

\* dict operations on the insertion-ordered association list
HasKey(d, k) == \E i \in DOMAIN d : d[i].key = k

Get(d, k) ==
    IF HasKey(d, k) THEN d[CHOOSE i \in DOMAIN d : d[i].key = k].val ELSE <<>>

\* defaultdict(list)[k].append(x)
AppendTo(d, k, x) ==
    IF HasKey(d, k)
    THEN [i \in DOMAIN d |->
            IF d[i].key = k THEN [key |-> k, val |-> Append(d[i].val, x)] ELSE d[i]]
    ELSE Append(d, [key |-> k, val |-> <<x>>])

RECURSIVE Flatten(_)
Flatten(d) == IF d = <<>> THEN <<>> ELSE Head(d).val \o Flatten(Tail(d))

\* position in order of the step being run (number of steps popped so far)
Pos == Len(order) - Len(remaining)

\* ---------------------------------------------------------------- properties of the pipeline
aborted == abort # None

\* variant: a pipeline counts as failed only for its soft failures
failed_IgnoreAbort == failures # <<>>

failed == (failures # <<>>) \/ aborted

\* ---------------------------------------------------------------- fail
Normalise(exc) ==
    IF exc.type # "str" THEN exc ELSE [type |-> "RuntimeError", val |-> exc.val]

\* the two assertions of fail
FailAsserts == current_step # None /\ current_hook # None

\* variant: an abort cause already stored is kept
NewAbort_KeepFirst(hook_exc) == IF abort = None THEN Some(hook_exc) ELSE abort

NewAbort(hook_exc) == Some(hook_exc)

\* variant: failures are filed under the first step of the order
FailKey_FirstStep == order[1]
\* line 222: the key is the current step
FailKey == current_step[1]

\* effect of fail(exc, abort_) on the pipeline and on the history of accepted calls
Fail(exc, abort_) ==
    LET hook_exc == HookFailedException(Normalise(exc), current_hook[1], abort_)
    IN  /\ abort' = IF abort_ THEN NewAbort(hook_exc) ELSE abort
        /\ failures' = IF abort_ THEN failures ELSE AppendTo(failures, FailKey, hook_exc)
        /\ failLog' = Append(failLog, [rec |-> hook_exc, pos |-> Pos, at |-> pc])

\* ---------------------------------------------------------------- ExecutionStep
\* the steps ExecutionSteps constructs when the module is loaded
DefaultSteps == <<"MAX_CONCURRENCY", "CHECKS", "COOLDOWNS">>

\* names user code may give to a step
StepNames == {"MAX_CONCURRENCY", "CHECKS", "COOLDOWNS", "s1", "s2", "s3"}

Range(q) == {q[i] : i \in DOMAIN q}

\* the registry once execution.py has been imported
StepsLoaded ==
    /\ all_steps = Range(DefaultSteps)
    /\ step_objects = DefaultSteps
    /\ step_arg = ""
    /\ step_result = "none"
    /\ step_calls = 0

\* variant: the registry is never consulted
StepNameTaken_Never(name) == FALSE

\* line 59
StepNameTaken(name) == name \in all_steps

\* ExecutionStep(name): __post_init__, lines 58-61
NewExecutionStep(name) ==
    /\ step_calls < MaxStepCalls
    /\ step_calls' = step_calls + 1
    /\ step_arg' = name
    /\ IF StepNameTaken(name)
       THEN /\ step_result' = "RuntimeError"
            /\ UNCHANGED <<all_steps, step_objects>>
       ELSE /\ all_steps' = all_steps \cup {name}
            /\ step_objects' = Append(step_objects, name)
            /\ step_result' = "ok"

\* ---------------------------------------------------------------- CommandMeta
\* a value that is no ExecutionHook
Junk == [step |-> "", func |-> "not_a_hook"]

IsExecutionHook(h) == h \in AllHooks

\* the hooks keyword argument: absent (None), not iterable, or an iterable
RawHooksArgs ==
    {[kind |-> k, items |-> <<>>] : k \in {"none", "not_iterable"}}
    \cup {[kind |-> "iterable", items |-> q] :
            q \in SeqsUpTo(AllHooks \cup {Junk}, MaxRawHooks)}

\* OptionData of an option declared with the given name
OptionData(name, type, default) == [name |-> name, type |-> type, default |-> default]
NoData == OptionData("", "", "")

\* class attributes: an Option, a method marked by invoke, anything else
AttrItems ==
    {[kind |-> "option", data |-> OptionData("x", "STRING", "UNDEFINED")]}
    \cup {[kind |-> k, data |-> NoData] : k \in {"invoke", "other"}}

AttrNames == {"x", "y", "z"}

\* the attrs dict of the class body: distinct attribute names, in declaration order
AttrsArgs ==
    {q \in SeqsUpTo([attr : AttrNames, item : AttrItems], MaxAttrs) :
        \A i, j \in DOMAIN q : i # j => q[i].attr # q[j].attr}

CommandTypes == {"SLASH", "USER"}

Declarations ==
    [type_kwarg : BOOLEAN, bases : {1, 2}, type : CommandTypes,
     name : {"cmd"}, description : {"", "text"}, nsfw : {FALSE},
     localizations : {"none"},
     raw_hooks : RawHooksArgs, attrs : AttrsArgs]

\* line 171
HooksSet(raw) == IF raw.kind = "iterable" THEN Range(raw.items) ELSE {}

\* line 172: the test made on the elements of the hooks set
HooksAccepted(hs) == hs = {} \/ \E h \in hs : IsExecutionHook(h)

\* dict[key] = val on an insertion-ordered dict
Put(d, k, v) ==
    IF HasKey(d, k)
    THEN [i \in DOMAIN d |-> IF d[i].key = k THEN [key |-> k, val |-> v] ELSE d[i]]
    ELSE Append(d, [key |-> k, val |-> v])

\* lines 175-182: the options found in the class attributes
RECURSIVE FindOptions(_, _)
FindOptions(attrs, acc) ==
    IF attrs = <<>> THEN acc
    ELSE FindOptions(Tail(attrs),
            IF Head(attrs).item.kind = "option"
            THEN Put(acc, Head(attrs).attr, Head(attrs).item.data)
            ELSE acc)

\* variant: the first method marked by invoke is kept
RECURSIVE FindInvoke_First(_, _)
FindInvoke_First(attrs, acc) ==
    IF attrs = <<>> THEN acc
    ELSE FindInvoke_First(Tail(attrs),
            IF Head(attrs).item.kind = "invoke" /\ acc = None
            THEN Some(Head(attrs).attr)
            ELSE acc)

\* lines 176-182: the invoke method found in the class attributes
RECURSIVE FindInvoke(_, _)
FindInvoke(attrs, acc) ==
    IF attrs = <<>> THEN acc
    ELSE FindInvoke(Tail(attrs),
            IF Head(attrs).item.kind = "invoke"
            THEN Some(Head(attrs).attr)
            ELSE acc)

\* the checks of lines 153-186, in order: "ok" or the error raised
DeclCheck(d) ==
    IF d.bases # 1 THEN "TypeError"
    ELSE IF d.description = "" /\ d.type = "SLASH" THEN "TypeError"
    ELSE IF d.raw_hooks.kind = "not_iterable" THEN "TypeError"
    ELSE IF ~HooksAccepted(HooksSet(d.raw_hooks)) THEN "TypeError"
    ELSE IF FindInvoke(d.attrs, None) = None THEN "TypeError"
    ELSE "ok"

\* lines 188-197
CommandData(d) ==
    [type |-> d.type, name |-> d.name, description |-> d.description,
     nsfw |-> d.nsfw, localizations |-> d.localizations,
     options |-> FindOptions(d.attrs, <<>>),
     invoke_method |-> FindInvoke(d.attrs, None)[1]]

\* a declaration that registers the hooks q and designates one invoke method
PlainDeclaration(q) ==
    [type_kwarg |-> FALSE, bases |-> 1, type |-> "SLASH", name |-> "cmd",
     description |-> "text", nsfw |-> FALSE, localizations |-> "none",
     raw_hooks |-> [kind |-> "iterable", items |-> q],
     attrs |-> <<[attr |-> "z", item |-> [kind |-> "invoke", data |-> NoData]]>>]

\* a command class declared from d, with the hooks hs
Declared(d, hs) ==
    /\ decl = d
    /\ decl_result = "ok"
    /\ command_data = Some(CommandData(d))
    /\ command_hooks = hs

\* ---------------------------------------------------------------- CommandBase
PRIMITIVE_OPTION_TYPES == {"STRING", "INTEGER", "FLOAT", "BOOLEAN", "MENTIONABLE"}

\* option types passed to _resolve_option; SUB_COMMAND has no lookup
OptionTypes == {"STRING", "USER", "ROLE", "CHANNEL", "ATTACHMENT", "SUB_COMMAND"}
OptionNames == {"x", "y"}
Defaults == {"UNDEFINED", "None", "d"}
Snowflakes == {"1", "2"}

\* the options _resolve_option is called with
Options ==
    {OptionData("x", t, d) : t \in OptionTypes, d \in {"UNDEFINED", "None"}}
    \cup {OptionData("y", "STRING", d) : d \in Defaults}

\* a value returned by _resolve_option, or the error it raises
Value(kind, id) == [kind |-> kind, id |-> id]
Error(name) == Value("error", name)
NoResult == Value("none", "")

\* interaction.resolved: absent (None), or the tables of resolved entities
NoTable ==
    [present |-> FALSE, members |-> {}, users |-> {}, roles |-> {},
     channels |-> {}, attachments |-> {}]
ResolvedTables ==
    {NoTable,
     [NoTable EXCEPT !.present = TRUE],
     [present |-> TRUE, members |-> {"1"}, users |-> {"1", "2"}, roles |-> {"1"},
      channels |-> {"1"}, attachments |-> {"1"}]}

\* context.options: the option values supplied with the interaction
SuppliedOptions ==
    SeqsUpTo({[name |-> "x", value |-> "1"], [name |-> "x", value |-> "2"],
              [name |-> "y", value |-> "1"]}, MaxSupplied)

\* _current_context is None
NoContext == [bound |-> FALSE, options |-> <<>>, resolved |-> NoTable]
\* a context, by the fields _resolve_option reads
Context(options, resolved) == [bound |-> TRUE, options |-> options, resolved |-> resolved]

EmptyCache == [n \in OptionNames |-> None]

\* the cache _resolve_option uses, context.command._resolved_option_cache:
\* the command of a context is the instance the context is bound to
CommandCache(ctx) == resolved_option_cache

\* variant: a missing context is not noticed
ContextMissing_Never(ctx) == FALSE
\* line 246
ContextMissing(ctx) == ~ctx.bound

\* variant: the cache is never consulted
CacheHit_Never(cache, name) == FALSE
\* line 249
CacheHit(cache, name) == cache[name] # None

\* variant: a default counts as declared when it is truthy
DefaultDeclared_Truthy(option) == option.default \notin {"UNDEFINED", "None"}
\* line 255
DefaultDeclared(option) == option.default # "UNDEFINED"

\* variant: _set_context keeps the cache
CacheAfterSetContext_Keep(cache) == cache
\* line 231
CacheAfterSetContext(cache) == EmptyCache

\* line 252
Found(ctx, option) == SelectSeq(ctx.options, LAMBDA o : o.name = option.name)

\* line 254
FallsBack(ctx, option) ==
    \/ Found(ctx, option) = <<>>
    \/ option.type \notin PRIMITIVE_OPTION_TYPES /\ ~ctx.resolved.present

\* table[snowflake]
Subscript(table, kind, snowflake) ==
    IF snowflake \in table THEN Value(kind, snowflake) ELSE Error("KeyError")

\* variant: the users table is consulted before the members table
Lookup_UsersFirst(resolved, type, snowflake) ==
    IF type = "USER"
    THEN IF snowflake \in resolved.users
         THEN Value("user", snowflake)
         ELSE Subscript(resolved.members, "member", snowflake)
    ELSE IF type = "ROLE" THEN Subscript(resolved.roles, "role", snowflake)
    ELSE IF type = "CHANNEL" THEN Subscript(resolved.channels, "channel", snowflake)
    ELSE IF type = "ATTACHMENT"
    THEN Subscript(resolved.attachments, "attachment", snowflake)
    ELSE Error("TypeError")

\* lines 265-282
Lookup(resolved, type, snowflake) ==
    IF type = "USER"
    THEN IF snowflake \in resolved.members
         THEN Value("member", snowflake)
         ELSE Subscript(resolved.users, "user", snowflake)
    ELSE IF type = "ROLE" THEN Subscript(resolved.roles, "role", snowflake)
    ELSE IF type = "CHANNEL" THEN Subscript(resolved.channels, "channel", snowflake)
    ELSE IF type = "ATTACHMENT"
    THEN Subscript(resolved.attachments, "attachment", snowflake)
    ELSE Error("TypeError")

\* variant: a default returned is cached like a resolved value
DefaultIsCached_Always == TRUE
\* line 259: the default is returned without a write to the cache
DefaultIsCached == FALSE

\* variant: whatever the call ends with is written to the cache
Compute_StoreAlways(ctx, option) ==
    IF FallsBack(ctx, option)
    THEN IF DefaultDeclared(option)
         THEN [result |-> Value("default", option.default), store |-> DefaultIsCached]
         ELSE [result |-> Error("ValueError"), store |-> TRUE]
    ELSE IF option.type \in PRIMITIVE_OPTION_TYPES
    THEN [result |-> Value("raw", Found(ctx, option)[1].value), store |-> TRUE]
    ELSE [result |-> Lookup(ctx.resolved, option.type, Found(ctx, option)[1].value),
          store |-> TRUE]

\* lines 252-285: the value computed from the context, and whether it is cached
Compute(ctx, option) ==
    IF FallsBack(ctx, option)
    THEN IF DefaultDeclared(option)
         THEN [result |-> Value("default", option.default), store |-> DefaultIsCached]
         ELSE [result |-> Error("ValueError"), store |-> FALSE]
    ELSE IF option.type \in PRIMITIVE_OPTION_TYPES
    THEN [result |-> Value("raw", Found(ctx, option)[1].value), store |-> TRUE]
    ELSE LET r == Lookup(ctx.resolved, option.type, Found(ctx, option)[1].value)
         IN  [result |-> r, store |-> r.kind # "error"]

\* lines 245-285
ResolveOutcome(ctx, option) ==
    IF ContextMissing(ctx)
    THEN [result |-> Error("RuntimeError"), store |-> FALSE]
    ELSE IF CacheHit(CommandCache(ctx), option.name)
    THEN [result |-> CommandCache(ctx)[option.name][1], store |-> FALSE]
    ELSE Compute(ctx, option)

\* CommandBase.__new__, lines 214-218, before any call
NewInstance ==
    /\ current_context = NoContext
    /\ resolved_option_cache = EmptyCache
    /\ last_call = "none"
    /\ resolve_arg = NoData
    /\ resolve_result = NoResult
    /\ first_resolved = EmptyCache
    /\ cleared = {}
    /\ defaulted = {}

\* _set_context, lines 220-231
SetContext(ctx) ==
    /\ current_context' = ctx
    /\ resolved_option_cache' = CacheAfterSetContext(resolved_option_cache)
    /\ last_call' = "_set_context"
    /\ resolve_arg' = NoData
    /\ resolve_result' = NoResult
    /\ first_resolved' = EmptyCache
    /\ cleared' = {n \in OptionNames : resolved_option_cache[n] # None}
    /\ defaulted' = {}

\* _resolve_option, lines 233-285
ResolveOption(option) ==
    LET out == ResolveOutcome(current_context, option)
    IN  /\ last_call' = "_resolve_option"
        /\ resolve_arg' = option
        /\ resolve_result' = out.result
        /\ resolved_option_cache' =
                IF out.store
                THEN [resolved_option_cache EXCEPT ![option.name] = Some(out.result)]
                ELSE resolved_option_cache
        /\ first_resolved' =
                IF out.store /\ first_resolved[option.name] = None
                THEN [first_resolved EXCEPT ![option.name] = Some(out.result)]
                ELSE first_resolved
        /\ defaulted' =
                IF out.result.kind = "default"
                THEN defaulted \cup {option.name}
                ELSE defaulted
        /\ UNCHANGED <<current_context, cleared>>

\* the options of the bound context are changed by its holder
MutateOptions(options) ==
    /\ current_context.bound
    /\ current_context' = [current_context EXCEPT !.options = options]
    /\ last_call' = "mutate"
    /\ resolve_arg' = NoData
    /\ resolve_result' = NoResult
    /\ UNCHANGED <<resolved_option_cache, first_resolved, cleared, defaulted>>

\* ---------------------------------------------------------------- two invocations
\* no second invocation
NoInvocation == [pc |-> "none"]

Alone ==
    /\ parked = NoInvocation
    /\ active = 1

\* the pipeline and the command instance of the invocation that is running
Invocation ==
    [context |-> context, remaining |-> remaining, hooks |-> hooks,
     current_step |-> current_step, current_hook |-> current_hook,
     failures |-> failures, abort |-> abort, step_hooks |-> step_hooks,
     pc |-> pc, raised |-> raised, invokeLog |-> invokeLog, order |-> order,
     invoked |-> invoked, failLog |-> failLog, failCalls |-> failCalls,
     failOutcome |-> failOutcome, hookOutcome |-> hookOutcome,
     invokeResult |-> invokeResult, current_context |-> current_context,
     resolved_option_cache |-> resolved_option_cache, last_call |-> last_call,
     resolve_arg |-> resolve_arg, resolve_result |-> resolve_result,
     first_resolved |-> first_resolved, cleared |-> cleared,
     defaulted |-> defaulted]

\* variant: the failures map is one object shared by every pipeline
ResumedFailures_Shared(inv) == failures
\* execution.py line 121: each pipeline has a failures map of its own
ResumedFailures(inv) == inv.failures

\* the event loop resumes the invocation inv
Resume(inv) ==
    /\ context' = inv.context
    /\ remaining' = inv.remaining
    /\ hooks' = inv.hooks
    /\ current_step' = inv.current_step
    /\ current_hook' = inv.current_hook
    /\ failures' = ResumedFailures(inv)
    /\ abort' = inv.abort
    /\ step_hooks' = inv.step_hooks
    /\ pc' = inv.pc
    /\ raised' = inv.raised
    /\ invokeLog' = inv.invokeLog
    /\ order' = inv.order
    /\ invoked' = inv.invoked
    /\ failLog' = inv.failLog
    /\ failCalls' = inv.failCalls
    /\ failOutcome' = inv.failOutcome
    /\ hookOutcome' = inv.hookOutcome
    /\ invokeResult' = inv.invokeResult
    /\ current_context' = inv.current_context
    /\ resolved_option_cache' = inv.resolved_option_cache
    /\ last_call' = inv.last_call
    /\ resolve_arg' = inv.resolve_arg
    /\ resolve_result' = inv.resolve_result
    /\ first_resolved' = inv.first_resolved
    /\ cleared' = inv.cleared
    /\ defaulted' = inv.defaulted

\* the invocation inv is the one running
Running(inv) ==
    /\ context = inv.context
    /\ remaining = inv.remaining
    /\ hooks = inv.hooks
    /\ current_step = inv.current_step
    /\ current_hook = inv.current_hook
    /\ failures = inv.failures
    /\ abort = inv.abort
    /\ step_hooks = inv.step_hooks
    /\ pc = inv.pc
    /\ raised = inv.raised
    /\ invokeLog = inv.invokeLog
    /\ order = inv.order
    /\ invoked = inv.invoked
    /\ failLog = inv.failLog
    /\ failCalls = inv.failCalls
    /\ failOutcome = inv.failOutcome
    /\ hookOutcome = inv.hookOutcome
    /\ invokeResult = inv.invokeResult
    /\ current_context = inv.current_context
    /\ resolved_option_cache = inv.resolved_option_cache
    /\ last_call = inv.last_call
    /\ resolve_arg = inv.resolve_arg
    /\ resolve_result = inv.resolve_result
    /\ first_resolved = inv.first_resolved
    /\ cleared = inv.cleared
    /\ defaulted = inv.defaulted

\* where a task can be suspended: not started, awaiting a hook (line 170),
\* awaiting the invocation routine (line 188), or finished
SuspensionPoints ==
    {"pending", "in_hook", "invoking", "returned", "raised", "assert_failed"}

\* the event loop suspends the running invocation and resumes the other
Switch ==
    /\ pc \in SuspensionPoints
    /\ parked' = Invocation
    /\ Resume(parked)
    /\ active' = 3 - active
    /\ UNCHANGED <<command_hooks, stepVars, metaVars, loaderVars>>

\* ---------------------------------------------------------------- Loader
\* the loadables command() and listener() append
Loadables ==
    {[kind |-> "_CommandLoadable", of |-> c] : c \in {"cmd1", "cmd2"}}
    \cup {[kind |-> "_ListenerLoadable", of |-> l] : l \in {"on1", "on2"}}

\* how unload of a loadable can end: Loadable.unload does nothing,
\* _ListenerLoadable.unload asks for the event manager and unsubscribes
UnloadOutcomes(loadable) ==
    IF loadable.kind = "_CommandLoadable" THEN {Returned} ELSE {Returned} \cup Raisable

\* Loader.__init__
NewLoader ==
    /\ loadables = <<>>
    /\ loader_pc = "idle"
    /\ unload_index = 0
    /\ unloaded = <<>>
    /\ unload_warnings = <<>>
    /\ remove_result = "none"

\* Loader.command / Loader.listener: lines 202 and 227
Register(loadable) ==
    /\ Len(loadables) < MaxLoadables
    /\ loadables' = Append(loadables, loadable)
    /\ UNCHANGED <<loader_pc, unload_index, unloaded, unload_warnings, remove_result>>

\* remove_from_client is called: line 145, the for loop starts
RemoveFromClient ==
    /\ loader_pc = "idle"
    /\ loader_pc' = "removing"
    /\ unload_index' = 1
    /\ unloaded' = <<>>
    /\ unload_warnings' = <<>>
    /\ remove_result' = "none"
    /\ UNCHANGED loadables

\* variant: the error of an unload ends remove_from_client
HandleUnloadError_Propagate(e) ==
    /\ loader_pc' = "idle"
    /\ remove_result' = "raised"
    /\ UNCHANGED <<unload_index, unload_warnings>>

\* lines 148-149: the error is logged and the loop goes on
HandleUnloadError(e) ==
    /\ unload_warnings' =
            Append(unload_warnings, [loadable |-> loadables[unload_index], exc |-> e])
    /\ unload_index' = unload_index + 1
    /\ UNCHANGED <<loader_pc, remove_result>>

\* lines 145-149: one turn of the loop, the awaited unload returns or raises
Unload(outcome) ==
    /\ loader_pc = "removing"
    /\ unload_index <= Len(loadables)
    /\ outcome \in UnloadOutcomes(loadables[unload_index])
    /\ unloaded' = Append(unloaded, loadables[unload_index])
    /\ IF outcome = Returned
       THEN /\ unload_index' = unload_index + 1
            /\ UNCHANGED <<loader_pc, unload_warnings, remove_result>>
       ELSE HandleUnloadError(outcome)
    /\ UNCHANGED loadables

\* the loop is exhausted: remove_from_client returns
RemoveReturn ==
    /\ loader_pc = "removing"
    /\ unload_index > Len(loadables)
    /\ loader_pc' = "idle"
    /\ remove_result' = "returned"
    /\ UNCHANGED <<loadables, unload_index, unloaded, unload_warnings>>

\* ---------------------------------------------------------------- construction
Init ==
    /\ context \in Contexts
    /\ order \in SeqsUpTo(Steps, MaxOrderLen)
    /\ remaining = order
    /\ \E hs \in SUBSET AllHooks :
            Declared(PlainDeclaration(CHOOSE q \in Perms(hs) : TRUE), hs)
    /\ hooks \in {h \in [Steps -> SeqsUpTo(AllHooks, Cardinality(Funcs))] :
                    \A s \in Steps : h[s] \in Perms({x \in command_hooks : x.step = s})}
    /\ current_step = None
    /\ current_hook = None
    /\ failures = <<>>
    /\ abort = None
    /\ step_hooks = <<>>
    /\ pc = "pending"
    /\ raised = <<>>
    /\ invokeLog = <<>>
    /\ invoked = <<>>
    /\ failLog = <<>>
    /\ failCalls = 0
    /\ failOutcome = "none"
    /\ hookOutcome = NoOutcome
    /\ invokeResult = NoOutcome
    /\ StepsLoaded
    /\ NewInstance
    /\ Alone
    /\ NewLoader

\* ---------------------------------------------------------------- _run
\* variant: the head of remaining is returned but not removed
NextStep_NoPop ==
    IF remaining # <<>>
    THEN /\ current_step' = Some(Head(remaining))
         /\ remaining' = remaining
    ELSE /\ current_step' = None
         /\ remaining' = remaining

\* _next_step: pops the head of remaining, None when exhausted
NextStep ==
    IF remaining # <<>>
    THEN /\ current_step' = Some(Head(remaining))
         /\ remaining' = Tail(remaining)
    ELSE /\ current_step' = None
         /\ remaining' = remaining

\* line 164
Run ==
    /\ pc = "pending"
    /\ NextStep
    /\ pc' = "outer"
    /\ UNCHANGED ext
    /\ UNCHANGED <<command_hooks, context, hooks, current_hook, failures, abort,
                   step_hooks, raised, invokeLog, order, invoked, failLog,
                   failCalls, failOutcome, hookOutcome, invokeResult>>

OuterContinue == current_step # None /\ ~aborted

\* variant: the hooks of every step are run at the current step
OuterTest_EveryStep ==
    /\ pc = "outer"
    /\ IF OuterContinue
       THEN /\ step_hooks' = hooks["CHECKS"] \o hooks["COOLDOWNS"]
            /\ pc' = "inner"
       ELSE /\ step_hooks' = step_hooks
            /\ pc' = "finish"
    /\ UNCHANGED ext
    /\ UNCHANGED <<command_hooks, context, remaining, hooks, current_step,
                   current_hook, failures, abort, raised, invokeLog, order,
                   invoked, failLog, failCalls, failOutcome, hookOutcome,
                   invokeResult>>

\* lines 165-166
OuterTest ==
    /\ pc = "outer"
    /\ IF OuterContinue
       THEN /\ step_hooks' = hooks[current_step[1]]
            /\ pc' = "inner"
       ELSE /\ step_hooks' = step_hooks
            /\ pc' = "finish"
    /\ UNCHANGED ext
    /\ UNCHANGED <<command_hooks, context, remaining, hooks, current_step,
                   current_hook, failures, abort, raised, invokeLog, order,
                   invoked, failLog, failCalls, failOutcome, hookOutcome,
                   invokeResult>>

\* variant: the hook loop of a step stops at the first failure of any sort
InnerContinue_StopOnFailure == step_hooks # <<>> /\ ~failed

\* variant: the hook loop of a step does not look at the abort cause
InnerContinue_IgnoreAbort == step_hooks # <<>>

InnerContinue == step_hooks # <<>> /\ ~aborted

\* variant: the next hook of the step is started without awaiting the one running
InnerTest_Concurrent ==
    /\ pc \in {"inner", "in_hook"}
    /\ IF InnerContinue
       THEN /\ current_hook' = Some(Head(step_hooks))
            /\ step_hooks' = Tail(step_hooks)
            /\ invoked' = Append(invoked, [hook |-> Head(step_hooks), pos |-> Pos])
            /\ pc' = "in_hook"
       ELSE /\ UNCHANGED <<current_hook, step_hooks, invoked>>
            /\ pc' = IF pc = "inner" THEN "after_step" ELSE pc
    /\ UNCHANGED ext
    /\ UNCHANGED <<command_hooks, context, remaining, hooks, current_step,
                   failures, abort, raised, invokeLog, order, failLog,
                   failCalls, failOutcome, hookOutcome, invokeResult>>

\* variant: a hook stays in the list of its step until it has run twice
InnerTest_KeepHook ==
    /\ pc = "inner"
    /\ IF InnerContinue
       THEN /\ current_hook' = Some(Head(step_hooks))
            /\ step_hooks' = IF current_hook = Some(Head(step_hooks))
                              THEN Tail(step_hooks) ELSE step_hooks
            /\ invoked' = Append(invoked, [hook |-> Head(step_hooks), pos |-> Pos])
            /\ pc' = "in_hook"
       ELSE /\ UNCHANGED <<current_hook, step_hooks, invoked>>
            /\ pc' = "after_step"
    /\ UNCHANGED ext
    /\ UNCHANGED <<command_hooks, context, remaining, hooks, current_step,
                   failures, abort, raised, invokeLog, order, failLog,
                   failCalls, failOutcome, hookOutcome, invokeResult>>

\* lines 167-170: the test of the inner loop and the start of the next hook
InnerTest ==
    /\ pc = "inner"
    /\ IF InnerContinue
       THEN /\ current_hook' = Some(Head(step_hooks))
            /\ step_hooks' = Tail(step_hooks)
            /\ invoked' = Append(invoked, [hook |-> Head(step_hooks), pos |-> Pos])
            /\ pc' = "in_hook"
       ELSE /\ UNCHANGED <<current_hook, step_hooks, invoked>>
            /\ pc' = "after_step"
    /\ UNCHANGED ext
    /\ UNCHANGED <<command_hooks, context, remaining, hooks, current_step,
                   failures, abort, raised, invokeLog, order, failLog,
                   failCalls, failOutcome, hookOutcome, invokeResult>>

\* the running hook (or code it started) calls pipeline.fail
HookFail(exc, abort_) ==
    /\ pc = "in_hook"
    /\ failCalls < MaxFailCalls
    /\ failCalls' = failCalls + 1
    /\ IF FailAsserts
       THEN Fail(exc, abort_) /\ failOutcome' = "accepted"
       ELSE UNCHANGED <<abort, failures, failLog>> /\ failOutcome' = "rejected"
    /\ UNCHANGED ext
    /\ UNCHANGED <<command_hooks, context, remaining, hooks, current_step,
                   current_hook, step_hooks, pc, raised, invokeLog, order,
                   invoked, hookOutcome, invokeResult>>

\* line 170: the awaited hook returns
HookReturn ==
    /\ pc = "in_hook"
    /\ hookOutcome' = Returned
    /\ pc' = "inner"
    /\ UNCHANGED ext
    /\ UNCHANGED <<command_hooks, context, remaining, hooks, current_step,
                   current_hook, failures, abort, step_hooks, raised, invokeLog,
                   order, invoked, failLog, failCalls, failOutcome, invokeResult>>

\* variant: the error of a hook ends the run at once instead of being recorded
HandleHookError_Propagate(e) ==
    /\ pc' = "raised"
    /\ raised' = <<HookFailedException(e, current_hook[1], FALSE)>>
    /\ UNCHANGED <<abort, failures, failLog>>

\* what the except clause of lines 171-172 does with the error e of a hook
HandleHookError(e) ==
    /\ Fail(e, FALSE)
    /\ pc' = "inner"
    /\ raised' = raised

\* lines 170-172: the awaited hook raises e
HookRaise(e) ==
    /\ pc = "in_hook"
    /\ hookOutcome' = e
    /\ HandleHookError(e)
    /\ UNCHANGED ext
    /\ UNCHANGED <<command_hooks, context, remaining, hooks, current_step,
                   current_hook, step_hooks, invokeLog, order, invoked,
                   failCalls, failOutcome, invokeResult>>

\* variant: only an abort halts the pipeline at the end of a step
HaltAfterStep_AbortOnly == aborted

\* variant: the end of a step never halts the pipeline
HaltAfterStep_Never == FALSE

HaltAfterStep == failed

\* lines 174-177
AfterStep ==
    /\ pc = "after_step"
    /\ IF HaltAfterStep
       THEN /\ pc' = "finish"
            /\ UNCHANGED <<current_step, remaining>>
       ELSE /\ NextStep
            /\ pc' = "outer"
    /\ UNCHANGED ext
    /\ UNCHANGED <<command_hooks, context, hooks, current_hook, failures, abort,
                   step_hooks, raised, invokeLog, order, invoked, failLog,
                   failCalls, failOutcome, hookOutcome, invokeResult>>

\* variant: the abort cause is put before the soft failures
Causes_AbortFirst ==
    (IF abort # None THEN <<abort[1]>> ELSE <<>>) \o Flatten(failures)

\* lines 180-182
Causes ==
    Flatten(failures) \o (IF abort # None THEN <<abort[1]>> ELSE <<>>)

\* variant: the invocation routine is handed the command instead of the context
InvokeArg_Command == "command"

\* argument of the invocation routine, line 188
InvokeArg == context

\* lines 179-188: raise the hook failures, or call the invocation routine
Finish ==
    /\ pc = "finish"
    /\ IF failed
       THEN /\ IF current_step # None
               THEN pc' = "raised" /\ raised' = Causes
               ELSE pc' = "assert_failed" /\ raised' = raised
            /\ invokeLog' = invokeLog
       ELSE /\ invokeLog' = Append(invokeLog, InvokeArg)
            /\ pc' = "invoking"
            /\ raised' = raised
    /\ UNCHANGED ext
    /\ UNCHANGED <<command_hooks, context, remaining, hooks, current_step,
                   current_hook, failures, abort, step_hooks, order, invoked,
                   failLog, failCalls, failOutcome, hookOutcome, invokeResult>>

\* variant: the error of the invocation routine is wrapped as a hook failure
InvocationCauses_AsHookFailure(e) ==
    <<[kind |-> "HookFailedException", exc |-> e, hook |-> current_hook,
       abort |-> FALSE, context |-> None]>>

\* line 190
InvocationCauses(e) == <<InvocationFailedException(e, context)>>

\* lines 188-190: the awaited invocation routine returns or raises
InvokeFinish(outcome) ==
    /\ pc = "invoking"
    /\ invokeResult' = outcome
    /\ IF outcome = Returned
       THEN pc' = "returned" /\ raised' = raised
       ELSE pc' = "raised" /\ raised' = InvocationCauses(outcome)
    /\ UNCHANGED ext
    /\ UNCHANGED <<command_hooks, context, remaining, hooks, current_step,
                   current_hook, failures, abort, step_hooks, invokeLog, order,
                   invoked, failLog, failCalls, failOutcome, hookOutcome>>

\* pipeline.fail called while no hook is running: before run, by the
\* invocation routine, or after run has finished
FailOutside(exc, abort_) ==
    /\ pc \in {"pending", "invoking", "returned", "raised"}
    /\ failCalls < MaxFailCalls
    /\ failCalls' = failCalls + 1
    /\ IF FailAsserts
       THEN Fail(exc, abort_) /\ failOutcome' = "accepted"
       ELSE UNCHANGED <<abort, failures, failLog>> /\ failOutcome' = "rejected"
    /\ UNCHANGED ext
    /\ UNCHANGED <<command_hooks, context, remaining, hooks, current_step,
                   current_hook, step_hooks, pc, raised, invokeLog, order,
                   invoked, hookOutcome, invokeResult>>

Next ==
    \/ Run
    \/ OuterTest
    \/ InnerTest
    \/ \E x \in FailArgs, a \in BOOLEAN : HookFail(x, a)
    \/ HookReturn
    \/ \E e \in Raisable : HookRaise(e)
    \/ AfterStep
    \/ Finish
    \/ \E o \in {Returned} \cup Raisable : InvokeFinish(o)
    \/ \E x \in FailArgs, a \in BOOLEAN : FailOutside(x, a)

Spec == Init /\ [][Next]_vars

\* ---------------------------------------------------------------- run, scheduled
\* the steps of _run itself and the return or raise of what it awaits
RunSteps ==
    \/ Run
    \/ OuterTest
    \/ InnerTest
    \/ HookReturn
    \/ \E e \in Raisable : HookRaise(e)
    \/ AfterStep
    \/ Finish
    \/ \E o \in {Returned} \cup Raisable : InvokeFinish(o)

\* _run is called and keeps running; every hook and the invocation routine
\* eventually returns or raises
LiveNext ==
    \/ RunSteps
    \/ \E x \in FailArgs, a \in BOOLEAN : HookFail(x, a)

\* the hook sets of the commands run: none, two hooks of one step, two steps
LiveHookSets ==
    {{}, {ExecutionHook("CHECKS", f) : f \in Funcs},
     {ExecutionHook(s, "f1") : s \in Steps}}

InitLive == Init /\ command_hooks \in LiveHookSets

SpecLive == InitLive /\ [][LiveNext]_vars /\ WF_vars(RunSteps)

\* ---------------------------------------------------------------- the step registry alone
StepsNext ==
    \E name \in StepNames : NewExecutionStep(name) /\ UNCHANGED <<pipelineVars, metaVars, resolveVars, twoVars, loaderVars>>

SpecSteps == Init /\ [][StepsNext]_vars

\* ---------------------------------------------------------------- declaration of a command
\* the fields of a pipeline not yet constructed
NoPipeline ==
    /\ context = "none"
    /\ order = <<>>
    /\ remaining = <<>>
    /\ hooks = [s \in Steps |-> <<>>]
    /\ current_step = None
    /\ current_hook = None
    /\ failures = <<>>
    /\ abort = None
    /\ step_hooks = <<>>
    /\ raised = <<>>
    /\ invokeLog = <<>>
    /\ invoked = <<>>
    /\ failLog = <<>>
    /\ failCalls = 0
    /\ failOutcome = "none"
    /\ hookOutcome = NoOutcome
    /\ invokeResult = NoOutcome

Undeclared(d) ==
    /\ decl = d
    /\ decl_result = "none"
    /\ command_data = None
    /\ command_hooks = {}
    /\ pc = "declaring"

\* CommandMeta.__new__, lines 139-199
DeclareCommand ==
    /\ pc = "declaring"
    /\ IF decl.type_kwarg
       THEN \* lines 143-149: a convenience class, no CommandData is built
            /\ decl_result' = "ok"
            /\ UNCHANGED <<command_data, command_hooks>>
            /\ pc' = "declared_base"
       ELSE IF DeclCheck(decl) = "ok"
       THEN /\ decl_result' = "ok"
            /\ command_data' = Some(CommandData(decl))
            /\ command_hooks' = HooksSet(decl.raw_hooks)
            /\ pc' = "declared"
       ELSE /\ decl_result' = DeclCheck(decl)
            /\ UNCHANGED <<command_data, command_hooks>>
            /\ pc' = "declare_failed"
    /\ UNCHANGED <<decl, stepVars, resolveVars, twoVars, loaderVars>>
    /\ UNCHANGED <<context, remaining, hooks, current_step, current_hook,
                   failures, abort, step_hooks, raised, invokeLog, order,
                   invoked, failLog, failCalls, failOutcome, hookOutcome,
                   invokeResult>>

InitMeta ==
    /\ \E d \in Declarations : Undeclared(d)
    /\ NoPipeline
    /\ StepsLoaded
    /\ NewInstance
    /\ Alone
    /\ NewLoader

MetaNext == DeclareCommand

SpecMeta == InitMeta /\ [][MetaNext]_vars

\* variant: the pipeline takes the hooks out of the set of the command
HooksAfterIteration_Consumed(hs) == {}
\* lines 115-116: the for loop reads the hooks set of the command
HooksAfterIteration(hs) == hs

\* ExecutionPipeline.__init__, lines 110-122, for a command declared: the
\* hooks set is iterated in an order of its own
ConstructPipeline(ctx, ord, iteration) ==
    /\ pc = "declared"
    /\ command_hooks' = HooksAfterIteration(command_hooks)
    /\ context' = ctx
    /\ order' = ord
    /\ remaining' = ord
    /\ IF \A i \in DOMAIN iteration : IsExecutionHook(iteration[i])
       THEN /\ hooks' = [s \in Steps |->
                            SelectSeq(iteration, LAMBDA h : h.step = s)]
            /\ pc' = "pending"
       ELSE \* hook.step of a value that is no hook: AttributeError
            /\ hooks' = hooks
            /\ pc' = "construct_failed"
    /\ UNCHANGED <<current_step, current_hook, failures, abort,
                   step_hooks, raised, invokeLog, invoked, failLog, failCalls,
                   failOutcome, hookOutcome, invokeResult>>
    /\ UNCHANGED ext

InitDecl ==
    /\ \E raw \in RawHooksArgs :
            Undeclared([PlainDeclaration(<<>>) EXCEPT !.raw_hooks = raw])
    /\ NoPipeline
    /\ StepsLoaded
    /\ NewInstance
    /\ Alone
    /\ NewLoader

DeclNext ==
    \/ DeclareCommand
    \/ \E ctx \in Contexts, ord \in SeqsUpTo(Steps, MaxOrderLen),
          iteration \in Perms(command_hooks) : ConstructPipeline(ctx, ord, iteration)
    \/ Next

SpecDecl == InitDecl /\ [][DeclNext]_vars

\* ---------------------------------------------------------------- a command instance in use
InitResolve ==
    /\ Declared(PlainDeclaration(<<>>), {})
    /\ NoPipeline
    /\ pc = "instance"
    /\ StepsLoaded
    /\ NewInstance
    /\ Alone
    /\ NewLoader

\* the rest of the state while a command instance is used
InstanceFrame == UNCHANGED <<pipelineVars, stepVars, metaVars, twoVars, loaderVars>>

ResolveNext ==
    \/ \E options \in SuppliedOptions, resolved \in ResolvedTables :
            SetContext(Context(options, resolved)) /\ InstanceFrame
    \/ \E option \in Options : ResolveOption(option) /\ InstanceFrame
    \/ \E options \in SuppliedOptions : MutateOptions(options) /\ InstanceFrame

SpecResolve == InitResolve /\ [][ResolveNext]_vars

\* ---------------------------------------------------------------- two invocations of one command
\* the options the hooks and the invocation routine of the command resolve
TwoOptions == {OptionData("x", "STRING", "UNDEFINED")}

\* an invocation just dispatched: a new instance bound to its context
\* (supplying the value v for x) and a new pipeline over the order ord
Dispatched(ctx, v, ord, iteration) ==
    [context |-> ctx, remaining |-> ord,
     hooks |-> [s \in Steps |-> SelectSeq(iteration, LAMBDA h : h.step = s)],
     current_step |-> None, current_hook |-> None, failures |-> <<>>,
     abort |-> None, step_hooks |-> <<>>, pc |-> "pending", raised |-> <<>>,
     invokeLog |-> <<>>, order |-> ord, invoked |-> <<>>, failLog |-> <<>>,
     failCalls |-> 0, failOutcome |-> "none", hookOutcome |-> NoOutcome,
     invokeResult |-> NoOutcome,
     current_context |-> Context(<<[name |-> "x", value |-> v]>>, NoTable),
     resolved_option_cache |-> EmptyCache, last_call |-> "_set_context",
     resolve_arg |-> NoData, resolve_result |-> NoResult,
     first_resolved |-> EmptyCache, cleared |-> {}, defaulted |-> {}]

\* the hook sets of the command invoked twice
TwoHookSets == {{ExecutionHook("CHECKS", "f1")}}

InitTwo ==
    /\ \E hs \in TwoHookSets, ord \in {<<"CHECKS">>} : \E iteration \in Perms(hs) :
        /\ Declared(PlainDeclaration(iteration), hs)
        /\ Running(Dispatched("ctx1", "1", ord, iteration))
        /\ parked = Dispatched("ctx2", "2", ord, iteration)
    /\ active = 1
    /\ StepsLoaded
    /\ NewLoader

\* a hook or the invocation routine resolves an option
ResolveInRun(option) ==
    /\ pc \in {"in_hook", "invoking"}
    /\ ResolveOption(option)
    /\ InstanceFrame

\* what the hooks of each invocation pass to fail
TwoFailArgs == [type |-> "str", val |-> "m1"] :> 1 @@ [type |-> "Exception", val |-> "e1"] :> 2

TwoNext ==
    \/ Switch
    \/ Run
    \/ OuterTest
    \/ InnerTest
    \/ \E x \in {y \in FailArgs : TwoFailArgs[y] = active}, a \in BOOLEAN : HookFail(x, a)
    \/ HookReturn
    \/ \E e \in Raisable : HookRaise(e)
    \/ AfterStep
    \/ Finish
    \/ \E o \in {Returned} \cup Raisable : InvokeFinish(o)
    \/ \E option \in TwoOptions : ResolveInRun(option)

SpecTwo == InitTwo /\ [][TwoNext]_vars

\* ---------------------------------------------------------------- one invocation, from dispatch
\* a command declared with an option, an invoke method and the hooks q
OptionDeclaration(q) ==
    [PlainDeclaration(q) EXCEPT !.attrs =
        <<[attr |-> "x", item |-> [kind |-> "option",
                                   data |-> OptionData("x", "STRING", "UNDEFINED")]],
          [attr |-> "z", item |-> [kind |-> "invoke", data |-> NoData]]>>]

\* the hook sets of the command invoked
InvokeHookSets ==
    {{}, {ExecutionHook("CHECKS", "f1")},
     {ExecutionHook("CHECKS", "f1"), ExecutionHook("COOLDOWNS", "f1")}}

InitInvoke ==
    /\ \E hs \in InvokeHookSets :
            Declared(OptionDeclaration(CHOOSE q \in Perms(hs) : TRUE), hs)
    /\ NoPipeline
    /\ pc = "declared"
    /\ StepsLoaded
    /\ NewInstance
    /\ Alone
    /\ NewLoader

\* the new command instance is bound to the context of the interaction
BindContext(ctx) ==
    /\ pc = "declared"
    /\ ~current_context.bound
    /\ SetContext(ctx)
    /\ InstanceFrame

\* the pipeline of the invocation is built once the instance is bound
BuildPipeline(ctx, ord, iteration) ==
    /\ current_context.bound
    /\ ConstructPipeline(ctx, ord, iteration)

\* the contexts of the interactions dispatched: x supplied or not
InvokeContexts ==
    {Context(<<>>, NoTable), Context(<<[name |-> "x", value |-> "1"]>>, NoTable)}

\* the step orders the dispatcher passes
InvokeOrders == {<<"CHECKS">>, <<"CHECKS", "COOLDOWNS">>}

InvokeNext ==
    \/ \E ctx \in InvokeContexts : BindContext(ctx)
    \/ \E ctx \in Contexts, ord \in InvokeOrders,
          iteration \in Perms(command_hooks) : BuildPipeline(ctx, ord, iteration)
    \/ Next
    \/ \E option \in TwoOptions : ResolveInRun(option)

SpecInvoke == InitInvoke /\ [][InvokeNext]_vars

\* ---------------------------------------------------------------- a loader in use
LoaderFrame == UNCHANGED <<pipelineVars, stepVars, metaVars, resolveVars, twoVars>>

InitLoader ==
    /\ Declared(PlainDeclaration(<<>>), {})
    /\ NoPipeline
    /\ pc = "loader"
    /\ StepsLoaded
    /\ NewInstance
    /\ Alone
    /\ NewLoader

LoaderNext ==
    \/ \E loadable \in Loadables : Register(loadable) /\ LoaderFrame
    \/ RemoveFromClient /\ LoaderFrame
    \/ \E outcome \in {Returned} \cup Raisable : Unload(outcome) /\ LoaderFrame
    \/ RemoveReturn /\ LoaderFrame

SpecLoader == InitLoader /\ [][LoaderNext]_vars

\* ---------------------------------------------------------------- history views
Finished == {"returned", "raised", "assert_failed"}

\* the failures recorded while the run was in progress, in the order recorded
RunFailures == SelectSeq(failLog, LAMBDA f : f.at = "in_hook")

Recs(log) == [i \in DOMAIN log |-> log[i].rec]

SoftRecs(log) == Recs(SelectSeq(log, LAMBDA f : ~f.rec.abort))

AbortRecs(log) == Recs(SelectSeq(log, LAMBDA f : f.rec.abort))

InvokedHooks == [i \in DOMAIN invoked |-> invoked[i].hook]

InvokedAt(p) == [i \in DOMAIN SelectSeq(invoked, LAMBDA v : v.pos = p) |->
                    SelectSeq(invoked, LAMBDA v : v.pos = p)[i].hook]

\* every hook of every step of the order, in the order the pipeline holds them
RECURSIVE ExpectedHooks(_)
ExpectedHooks(o) == IF o = <<>> THEN <<>> ELSE hooks[Head(o)] \o ExpectedHooks(Tail(o))

HookKind(causes) == \A i \in DOMAIN causes : causes[i].kind = "HookFailedException"

\* ---------------------------------------------------------------- claims

\* C1: once a failure (soft or abort) has been recorded during a step of the
\* run, the pipeline halts at that step: no hook is invoked at a later position
\* of the order, the invocation routine is never called, failed is true, and
\* when the run has ended it has ended by raising the error aggregating the
\* hook failures.
C1_HaltsAtFailingStep ==
    RunFailures # <<>> =>
        /\ failed
        /\ invokeLog = <<>>
        /\ pc \notin {"invoking", "returned"}
        /\ \A i \in DOMAIN invoked : invoked[i].pos <= RunFailures[1].pos
        /\ pc \in Finished => (pc = "raised" /\ raised # <<>> /\ HookKind(raised))

\* C1 witness: the run was halted by a soft failure in the first step while a
\* later step of the order had a hook registered.
C1_Witness ==
    /\ pc = "raised"
    /\ RunFailures # <<>>
    /\ abort = None
    /\ remaining # <<>>
    /\ hooks[Head(remaining)] # <<>>
    /\ Head(remaining) # current_step[1]

\* C2 as stated: when no hook records a failure, the run calls the invocation
\* routine exactly once with the pipeline's context and returns without raising.
C2_Original ==
    (pc \in Finished /\ RunFailures = <<>>) =>
        (pc = "returned" /\ invokeLog = <<context>>)

\* C2 as amended: when no hook records a failure, the invocation routine is
\* called exactly once, with the context the pipeline was constructed with,
\* only after every hook of every step of the order has completed; the run
\* returns without raising exactly when the invocation routine returns, and
\* raises when the routine raises.
C2_InvokedOnceAfterHooks ==
    /\ invokeLog # <<>> =>
        /\ invokeLog = <<context>>
        /\ InvokedHooks = ExpectedHooks(order)
        /\ pc \in {"invoking"} \cup Finished
    /\ (pc \in Finished /\ RunFailures = <<>>) =>
        /\ invokeLog = <<context>>
        /\ invokeResult = Returned <=> pc = "returned"
        /\ invokeResult \in Raisable <=> pc = "raised"

\* C2 witness: a run over two steps in which two hooks passed and the
\* invocation routine returned.
C2_Witness ==
    /\ pc = "returned"
    /\ Len(order) = 2
    /\ Len(invoked) >= 2
    /\ invokeLog = <<context>>

\* C3: a soft failure does not stop the sibling hooks: when the run halts at a
\* step in which no hook aborted, every hook registered for that step was
\* invoked at that step, and the step's failure list holds one record for each
\* soft failure signalled, in the order signalled.
C3_SiblingsStillRun ==
    (pc \in {"finish", "raised"} /\ RunFailures # <<>> /\ AbortRecs(RunFailures) = <<>>) =>
        /\ InvokedAt(Pos) = hooks[current_step[1]]
        /\ Get(failures, current_step[1]) = SoftRecs(failLog)
        /\ Len(Get(failures, current_step[1])) >= Len(RunFailures)

\* C3 witness: two different hooks of one step both failed softly and the run
\* halted only afterwards.
C3_Witness ==
    /\ pc = "raised"
    /\ abort = None
    /\ Len(RunFailures) = 2
    /\ RunFailures[1].rec.hook # RunFailures[2].rec.hook
    /\ Len(raised) = 2

\* C4: once an abort failure is stored no further hook is started and the
\* invocation routine is not called, aborted stays true; and the fail call that
\* requests the abort leaves the calling hook running.
C4_AbortStopsLaterHooks ==
    [][/\ abort # None =>
            /\ invoked' = invoked
            /\ invokeLog' = invokeLog
            /\ invokeLog = <<>>
            /\ aborted'
            /\ pc' \notin {"in_hook", "invoking", "returned"} \/ pc' = pc
       /\ (pc = "in_hook" /\ abort = None /\ abort' # None) =>
            /\ pc' = "in_hook"
            /\ current_hook' = current_hook
            /\ step_hooks' = step_hooks]_vars

\* C4 witness: a hook aborted, went on to signal a soft failure, and the run
\* ended with a sibling hook and a later step never started.
C4_Witness ==
    /\ pc = "raised"
    /\ Len(RunFailures) = 2
    /\ RunFailures[1].rec.abort
    /\ ~RunFailures[2].rec.abort
    /\ step_hooks # <<>>
    /\ remaining # <<>>
    /\ Len(invoked) = 1

\* C5: the causes of the error raised for hook failures are the soft failures
\* in the order they were recorded, followed by the stored abort cause exactly
\* when an abort is stored.
C5_CausesOrder ==
    [][(pc = "finish" /\ pc' = "raised") =>
        /\ raised' = SoftRecs(failLog) \o (IF abort # None THEN <<abort[1]>> ELSE <<>>)
        /\ Len(raised') = Len(SoftRecs(failLog)) + (IF aborted THEN 1 ELSE 0)
        /\ aborted <=> AbortRecs(failLog) # <<>>]_vars

\* C5 witness: an error raised with two soft failures followed by the abort.
C5_Witness ==
    /\ pc = "raised"
    /\ Len(raised) = 3
    /\ ~raised[1].abort
    /\ ~raised[2].abort
    /\ raised[3].abort

\* C6: when the invocation routine raises, the run raises an error whose only
\* cause is the invocation failure wrapping the routine's error; the failure
\* lists and the abort cause stay empty, so failed and aborted are false.
C6_InvocationFailureAlone ==
    (pc = "raised" /\ invokeResult \in Raisable) =>
        /\ raised = <<InvocationFailedException(invokeResult, context)>>
        /\ Len(raised) = 1
        /\ raised[1].kind # "HookFailedException"
        /\ failures = <<>>
        /\ abort = None
        /\ ~failed
        /\ ~aborted

\* C6 witness: hooks ran and passed, the invocation routine raised, and fail
\* was called afterwards.
C6_Witness ==
    /\ pc = "raised"
    /\ invokeResult \in Raisable
    /\ Len(invoked) >= 1
    /\ failOutcome = "rejected"

\* C7: an error raised by a hook is recorded as a non-aborting failure of that
\* hook under the current step and the run goes on with the step; the run
\* raises only once the halted step's hook list is exhausted or an abort is
\* stored, and a finished run raises nothing more.
C7_HookErrorsCaught ==
    /\ [][(pc = "in_hook" /\ pc' # "in_hook" /\ hookOutcome' \in Raisable) =>
            /\ pc' = "inner"
            /\ raised' = raised
            /\ abort' = abort
            /\ failures' = AppendTo(failures, current_step[1],
                              HookFailedException(hookOutcome', current_hook[1], FALSE))]_vars
    /\ [][(pc \in Finished) => (pc' = pc /\ raised' = raised)]_vars
    /\ [][(pc' = "raised" /\ pc # "raised" /\ pc # "invoking") =>
            (step_hooks = <<>> \/ aborted)]_vars

\* C7 witness: a hook raised, the failure is on record, and a sibling hook is
\* still to be run.
C7_Witness ==
    /\ pc = "inner"
    /\ hookOutcome \in Raisable
    /\ step_hooks # <<>>
    /\ failures # <<>>
    /\ abort = None

\* C8: in every state aborted is true exactly when an abort failure is stored,
\* and failed is true exactly when some step has a recorded soft failure or
\* the pipeline is aborted.
C8_FailedAbortedDefinitions ==
    /\ aborted <=> abort # None
    /\ failed <=> ((\E s \in Steps : Len(Get(failures, s)) > 0) \/ abort # None)
    /\ aborted => failed
    /\ \A i \in DOMAIN failures : failures[i].val # <<>>

\* C8 witness: a pipeline aborted in the middle of a run with no soft failure.
C8_Witness ==
    /\ pc = "in_hook"
    /\ aborted
    /\ failures = <<>>

\* C9 as stated: a fail call made while no hook is executing is rejected and
\* leaves the failure lists and the abort cause unchanged.
C9_FailOnlyInsideHook ==
    [][(pc # "in_hook" /\ failCalls' # failCalls) =>
        /\ failOutcome' = "rejected"
        /\ failures' = failures
        /\ abort' = abort]_vars

\* C10 as stated: the first abort registered is the one stored and the one in
\* the raised error.
C10_FirstAbortWins ==
    [][/\ (pc = "in_hook" /\ abort # None) => abort' = abort
       /\ (pc = "finish" /\ pc' = "raised" /\ abort # None) =>
            raised'[Len(raised')] = AbortRecs(failLog)[1]]_vars

\* the abort cause of the latest accepted fail(..., abort=True) call
StoredAbortExpected ==
    IF AbortRecs(failLog) = <<>> THEN None
    ELSE Some(AbortRecs(failLog)[Len(AbortRecs(failLog))])

\* C10 as amended: the pipeline keeps a single abort cause, which is the one of
\* the latest accepted fail(..., abort=True) call; the abort entry of the
\* raised error is the one of the latest such call made before the raise.
C10_LastAbortWins ==
    /\ [](abort = StoredAbortExpected)
    /\ [][(pc = "finish" /\ pc' = "raised" /\ abort # None) =>
            /\ raised'[Len(raised')] = AbortRecs(failLog)[Len(AbortRecs(failLog))]
            /\ Cardinality({i \in DOMAIN raised' : raised'[i].abort}) = 1]_vars

\* C10 witness: one hook called fail with abort twice, with different causes,
\* and the run raised.
C10_Witness ==
    /\ pc = "raised"
    /\ Len(AbortRecs(RunFailures)) = 2
    /\ AbortRecs(RunFailures)[1] # AbortRecs(RunFailures)[2]
    /\ raised = <<AbortRecs(RunFailures)[2]>>

\* C12: hooks of one pipeline run strictly one after another and in the
\* supplied step order: a hook is started only when no hook of the pipeline is
\* executing (the one started before has returned or raised), and the
\* positions in the order of the hooks started never decrease.
C12_HooksSequentialInOrder ==
    /\ [][invoked' # invoked =>
            /\ pc # "in_hook"
            /\ pc' = "in_hook"
            /\ Len(invoked') = Len(invoked) + 1
            /\ hookOutcome # NoOutcome \/ invoked = <<>>]_vars
    /\ [](\A i, j \in DOMAIN invoked : i < j => invoked[i].pos <= invoked[j].pos)
    /\ [](pc = "in_hook" =>
            /\ invoked # <<>>
            /\ current_hook = Some(invoked[Len(invoked)].hook)
            /\ invoked[Len(invoked)].pos = Pos
            /\ current_step = Some(order[Pos]))

\* C12 witness: a hook of the second step of the order is running after two
\* hooks of the first step have completed.
C12_Witness ==
    /\ pc = "in_hook"
    /\ Len(invoked) = 3
    /\ invoked[1].pos = 1
    /\ invoked[2].pos = 1
    /\ invoked[3].pos = 2

NoDuplicates(q) == \A i, j \in DOMAIN q : i # j => q[i] # q[j]

\* C13: step names are unique: constructing a step whose name an earlier
\* construction used fails and leaves the registry and the steps constructed
\* so far unchanged, so no two constructed steps share a name.
C13_StepNamesUnique ==
    /\ [](NoDuplicates(step_objects) /\ all_steps = Range(step_objects))
    /\ [][(step_calls' # step_calls /\ step_arg' \in Range(step_objects)) =>
            /\ step_result' = "RuntimeError"
            /\ all_steps' = all_steps
            /\ step_objects' = step_objects]_vars
    /\ [][(step_calls' # step_calls /\ step_arg' \notin Range(step_objects)) =>
            /\ step_result' = "ok"
            /\ step_objects' = Append(step_objects, step_arg')]_vars

\* C13 witness: a name given to a step by user code was refused the second
\* time, the first step of that name still being there.
C13_Witness ==
    /\ step_result = "RuntimeError"
    /\ step_arg \notin Range(DefaultSteps)
    /\ step_arg \in Range(step_objects)
    /\ Len(step_objects) = Len(DefaultSteps) + 2

\* ---------------------------------------------------------------- C11
\* the place of a hook in the hooks argument of the declaration
RegisteredAt(h) ==
    CHOOSE i \in DOMAIN decl.raw_hooks.items :
        /\ decl.raw_hooks.items[i] = h
        /\ \A j \in 1..(i - 1) : decl.raw_hooks.items[j] # h

\* C11: within each step, the hooks are invoked in the order in which the
\* declaration of the command registered them
C11_HooksInRegistrationOrder ==
    \A a, b \in DOMAIN invoked :
        (a < b /\ invoked[a].pos = invoked[b].pos) =>
            RegisteredAt(invoked[a].hook) < RegisteredAt(invoked[b].hook)

\* ---------------------------------------------------------------- C14
\* the class attributes that designate an invoke method
InvokeAttrs == {i \in DOMAIN decl.attrs : decl.attrs[i].item.kind = "invoke"}

Last(S) == CHOOSE i \in S : \A j \in S : j <= i

\* the declaration of a command (not of a convenience class) was evaluated
Evaluated == pc # "declaring" /\ ~decl.type_kwarg

\* C14 as stated: a CommandData is built only from a declaration that
\* designates exactly one invoke method; none, or more than one, is rejected
C14_ExactlyOneInvokeMethod ==
    /\ command_data # None => Cardinality(InvokeAttrs) = 1
    /\ (Evaluated /\ Cardinality(InvokeAttrs) # 1) =>
            decl_result = "TypeError" /\ command_data = None

\* C14 amended: a CommandData is built only from a declaration that designates
\* at least one invoke method, and the last one designated is the one used; a
\* declaration that designates none is rejected with a TypeError
C14_LastInvokeMethodUsed ==
    /\ command_data # None =>
            /\ InvokeAttrs # {}
            /\ command_data[1].invoke_method = decl.attrs[Last(InvokeAttrs)].attr
    /\ (Evaluated /\ InvokeAttrs = {}) =>
            decl_result = "TypeError" /\ command_data = None

C14_Witness ==
    /\ pc = "declared"
    /\ Cardinality(InvokeAttrs) = 2
    /\ command_data[1].invoke_method = decl.attrs[Last(InvokeAttrs)].attr

\* ---------------------------------------------------------------- C15
\* C15: the declaration is rejected whenever the hooks argument is not
\* iterable or holds an element that is no ExecutionHook, so every element of
\* the hooks set of a command built is an ExecutionHook
C15_HooksAllExecutionHooks ==
    /\ (/\ Evaluated
        /\ \/ decl.raw_hooks.kind = "not_iterable"
           \/ \E i \in DOMAIN decl.raw_hooks.items :
                    ~IsExecutionHook(decl.raw_hooks.items[i])) =>
            decl_result = "TypeError" /\ command_data = None
    /\ command_data # None => \A h \in command_hooks : IsExecutionHook(h)

\* ---------------------------------------------------------------- C16
\* the OptionData of the options declared, in declaration order
DeclaredOptions ==
    LET opts == SelectSeq(decl.attrs, LAMBDA a : a.item.kind = "option")
    IN [i \in DOMAIN opts |-> opts[i].item.data]

\* C16: the options map is keyed by the declared name of each option, in
\* declaration order, and a declaration with two options of the same declared
\* name is rejected, so no two options of a command built share a name
C16_OptionsKeyedByDeclaredName ==
    /\ command_data # None =>
            LET options == command_data[1].options
            IN /\ \A i \in DOMAIN options : options[i].key = options[i].val.name
               /\ [i \in DOMAIN options |-> options[i].val] = DeclaredOptions
               /\ \A i, j \in DOMAIN options :
                    i # j => options[i].val.name # options[j].val.name
    /\ (Evaluated /\ \E i, j \in DOMAIN DeclaredOptions :
                        i # j /\ DeclaredOptions[i].name = DeclaredOptions[j].name) =>
            decl_result # "ok" /\ command_data = None

\* ---------------------------------------------------------------- C17
\* the step is a call of _resolve_option
Resolving == last_call' = "_resolve_option"

\* C17: once _resolve_option has returned and cached a value for an option
\* under the bound context, every later call for that option under the same
\* context returns that value, whatever the options of the context become
C17_CachedValueStable ==
    /\ [][(Resolving /\ first_resolved[resolve_arg'.name] # None) =>
            /\ resolve_result' = first_resolved[resolve_arg'.name][1]
            /\ resolved_option_cache' = resolved_option_cache]_vars
    /\ [][(Resolving /\ resolved_option_cache' # resolved_option_cache) =>
            /\ resolved_option_cache'[resolve_arg'.name] = Some(resolve_result')
            /\ first_resolved'[resolve_arg'.name] = Some(resolve_result')]_vars

C17_Witness ==
    /\ last_call = "_resolve_option"
    /\ resolve_arg.name = "x"
    /\ first_resolved["x"] = Some(Value("raw", "1"))
    /\ resolve_result = Value("raw", "1")
    /\ current_context.options = <<[name |-> "x", value |-> "2"]>>

\* ---------------------------------------------------------------- C18
\* C18: _set_context empties the cache: afterwards every cached value was
\* stored under the new context, and a call of _resolve_option for a name not
\* resolved since is computed from the options of the new context
C18_SetContextClearsCache ==
    /\ [][last_call' = "_set_context" => resolved_option_cache' = EmptyCache]_vars
    /\ [](\A n \in OptionNames :
            resolved_option_cache[n] # None =>
                first_resolved[n] = resolved_option_cache[n])
    /\ [][(Resolving /\ current_context.bound
            /\ first_resolved[resolve_arg'.name] = None) =>
            resolve_result' = Compute(current_context, resolve_arg').result]_vars

C18_Witness ==
    /\ "x" \in cleared
    /\ last_call = "_resolve_option"
    /\ resolve_arg.name = "x"
    /\ current_context.options = <<[name |-> "x", value |-> "2"]>>
    /\ resolve_result = Value("raw", "2")
    /\ resolved_option_cache["x"] = Some(Value("raw", "2"))

\* ---------------------------------------------------------------- C19
\* no value is supplied under the name of the option
NoneSupplied(name) ==
    \A i \in DOMAIN current_context.options : current_context.options[i].name # name

\* C19: when _resolve_option finds no supplied value under the name of the
\* option, or the option is of a reference type and the context has no
\* resolved table, it returns the declared default (None included) and fails
\* with ValueError when none was declared
C19_FallsBackToDefault ==
    [][(/\ Resolving
        /\ current_context.bound
        /\ resolved_option_cache[resolve_arg'.name] = None
        /\ \/ NoneSupplied(resolve_arg'.name)
           \/ /\ resolve_arg'.type \notin PRIMITIVE_OPTION_TYPES
              /\ ~current_context.resolved.present) =>
        /\ resolve_result' =
                IF resolve_arg'.default = "UNDEFINED"
                THEN Error("ValueError")
                ELSE Value("default", resolve_arg'.default)
        /\ resolved_option_cache' = resolved_option_cache]_vars

C19_Witness ==
    /\ last_call = "_resolve_option"
    /\ current_context.bound
    /\ NoneSupplied(resolve_arg.name)
    /\ resolve_arg.default = "None"
    /\ resolve_result = Value("default", "None")

\* ---------------------------------------------------------------- C20
\* C20: _resolve_option called while no context is bound fails with the
\* no-context RuntimeError, for every option
C20_NoContextError ==
    [][(Resolving /\ ~current_context.bound) =>
        /\ resolve_result' = Error("RuntimeError")
        /\ resolved_option_cache' = resolved_option_cache
        /\ current_context' = current_context]_vars

C20_Witness ==
    /\ last_call = "_resolve_option"
    /\ ~current_context.bound
    /\ resolve_arg.default = "None"
    /\ resolve_result = Error("RuntimeError")

\* ---------------------------------------------------------------- C21
ReferenceTypes == {"USER", "ROLE", "CHANNEL", "ATTACHMENT"}

\* the value of the first option supplied under the name
FirstSupplied(name) ==
    LET i == CHOOSE k \in DOMAIN current_context.options :
                /\ current_context.options[k].name = name
                /\ \A j \in 1..(k - 1) : current_context.options[j].name # name
    IN  current_context.options[i].value

\* the entity stored under the identifier in the table of the kind of the option
StoredEntity(type, id) ==
    LET resolved == current_context.resolved
    IN  IF type = "USER"
        THEN IF id \in resolved.members THEN Value("member", id) ELSE Value("user", id)
        ELSE IF type = "ROLE" THEN Value("role", id)
        ELSE IF type = "CHANNEL" THEN Value("channel", id)
        ELSE Value("attachment", id)

\* the identifier has an entity in the table of the kind of the option
IsStored(type, id) ==
    LET resolved == current_context.resolved
    IN  id \in (IF type = "USER" THEN resolved.members \cup resolved.users
                ELSE IF type = "ROLE" THEN resolved.roles
                ELSE IF type = "CHANNEL" THEN resolved.channels
                ELSE resolved.attachments)

\* C21: for an option of a reference type whose identifier is supplied, under a
\* context with a resolved table, _resolve_option returns and caches the entity
\* stored under the identifier in the table of the option's kind, never the
\* identifier; for USER the members entry when there is one, else the users entry
C21_ReferenceLookup ==
    [][(/\ Resolving
        /\ current_context.bound
        /\ resolved_option_cache[resolve_arg'.name] = None
        /\ ~NoneSupplied(resolve_arg'.name)
        /\ resolve_arg'.type \in ReferenceTypes
        /\ current_context.resolved.present
        /\ IsStored(resolve_arg'.type, FirstSupplied(resolve_arg'.name))) =>
        /\ resolve_result' =
                StoredEntity(resolve_arg'.type, FirstSupplied(resolve_arg'.name))
        /\ resolve_result'.kind # "raw"
        /\ resolved_option_cache'[resolve_arg'.name] = Some(resolve_result')]_vars

C21_Witness ==
    /\ last_call = "_resolve_option"
    /\ resolve_arg.type = "USER"
    /\ ~NoneSupplied(resolve_arg.name)
    /\ FirstSupplied(resolve_arg.name) \in
            current_context.resolved.members \cap current_context.resolved.users
    /\ resolve_result = Value("member", FirstSupplied(resolve_arg.name))
    /\ resolved_option_cache[resolve_arg.name] = Some(resolve_result)

\* ---------------------------------------------------------------- C22
\* the abort cause of the latest fail(..., abort=True) call of the log
LastAbort(log) ==
    IF AbortRecs(log) = <<>> THEN None ELSE Some(AbortRecs(log)[Len(AbortRecs(log))])

\* what the pipeline of inv raises for its hook failures
OwnCauses(inv) ==
    Flatten(inv.failures) \o (IF inv.abort # None THEN <<inv.abort[1]>> ELSE <<>>)

\* the failure lists, abort cause, outcome and cache of the invocation inv are
\* those its own hooks, routine, context and resolve calls produce
OwnState(inv) ==
    /\ Flatten(inv.failures) = SoftRecs(inv.failLog)
    /\ inv.abort = LastAbort(inv.failLog)
    /\ inv.invokeLog \in {<<>>, <<inv.context>>}
    /\ inv.pc = "raised" =>
            inv.raised = IF inv.failLog # <<>> THEN OwnCauses(inv)
                         ELSE <<InvocationFailedException(inv.invokeResult, inv.context)>>
    /\ inv.pc = "returned" => inv.failLog = <<>> /\ inv.invokeResult = Returned
    /\ \A n \in OptionNames :
            inv.resolved_option_cache[n] # None =>
                /\ n = "x"
                /\ inv.resolved_option_cache[n] =
                        Some(Value("raw", inv.current_context.options[1].value))

\* C22: two invocations of one command, each with its own context, command
\* instance and pipeline, are independent under every interleaving at the
\* suspension points: a step of one leaves the other as it was, the command
\* data is left as it was, and the failure lists, abort cause, outcome and
\* cache of each are those of that invocation run alone
C22_InvocationsIndependent ==
    /\ [](OwnState(Invocation) /\ OwnState(parked))
    /\ [][IF active' = active
          THEN parked' = parked
          ELSE parked' = Invocation /\ Invocation' = parked]_vars
    /\ [][command_hooks' = command_hooks /\ command_data' = command_data]_vars

C22_Witness ==
    /\ pc = "in_hook"
    /\ parked.pc = "in_hook"
    /\ failures # <<>>
    /\ parked.abort # None
    /\ parked.failures = <<>>
    /\ resolved_option_cache["x"] # None
    /\ parked.resolved_option_cache["x"] # None
    /\ resolved_option_cache # parked.resolved_option_cache

\* ---------------------------------------------------------------- C23
\* C23: remove_from_client calls unload on every registered loadable, in
\* registration order, also when the unload of earlier loadables raised; the
\* exception is not propagated to the caller
C23_UnloadsAllLoadables ==
    /\ [](loader_pc = "removing" =>
            /\ unload_index - 1 <= Len(loadables)
            /\ unloaded = SubSeq(loadables, 1, unload_index - 1))
    /\ [][(loader_pc = "removing" /\ loader_pc' # "removing") =>
            /\ unloaded' = loadables
            /\ remove_result' = "returned"]_vars
    /\ [](remove_result # "raised")
    /\ [](\A i \in DOMAIN unload_warnings :
            unload_warnings[i].loadable \in Range(unloaded))

C23_Witness ==
    /\ remove_result = "returned"
    /\ Len(loadables) = 3
    /\ unloaded = loadables
    /\ Len(unload_warnings) = 2
    /\ unload_warnings[1].loadable = loadables[1]
    /\ unload_warnings[2].loadable = loadables[2]
    /\ loadables[3].kind = "_CommandLoadable"

\* ---------------------------------------------------------------- C24
\* C24: constructing and running a pipeline, calling fail, binding a context
\* and resolving options leave every field of the CommandData of the command
\* (type, name, description, nsfw, hooks, options, invoke method) unchanged
C24_CommandDataUnchanged ==
    [][/\ command_hooks' = command_hooks
       /\ command_data' = command_data
       /\ command_data # None]_vars

C24_Witness ==
    /\ pc = "raised"
    /\ Len(failLog) = 2
    /\ Len(invoked) = 2
    /\ current_context.bound
    /\ resolved_option_cache["x"] # None
    /\ Cardinality(command_hooks) = 2
    /\ command_data[1].options # <<>>

\* ---------------------------------------------------------------- C25
\* C25: a call of _resolve_option that falls back to the declared default
\* leaves the cache as it was, with no entry under the name; a value supplied
\* later under the same context is then resolved instead of the default
C25_DefaultNotCached ==
    /\ [][(Resolving /\ resolve_result'.kind = "default") =>
            /\ resolved_option_cache' = resolved_option_cache
            /\ resolved_option_cache'[resolve_arg'.name] = None]_vars
    /\ [][(/\ Resolving
           /\ resolve_arg'.name \in defaulted
           /\ first_resolved[resolve_arg'.name] = None
           /\ ~NoneSupplied(resolve_arg'.name)
           /\ resolve_arg'.type \in PRIMITIVE_OPTION_TYPES) =>
            resolve_result' = Value("raw", FirstSupplied(resolve_arg'.name))]_vars

C25_Witness ==
    /\ last_call = "_resolve_option"
    /\ resolve_arg.name \in defaulted
    /\ resolve_arg.default = "None"
    /\ resolve_result = Value("raw", "1")
    /\ resolved_option_cache[resolve_arg.name] = Some(resolve_result)

\* ---------------------------------------------------------------- C26
\* most hooks a step can hold
MostHooks == Cardinality(Funcs)

\* how far the run in state p (pc, step hooks left, steps left) is from its end
Distance(p, hooksLeft, stepsLeft) ==
    stepsLeft * (2 * MostHooks + 8)
    + (IF p = "pending" THEN 2 * MostHooks + 7
       ELSE IF p = "outer" THEN 2 * MostHooks + 6
       ELSE IF p = "in_hook" THEN 2 * hooksLeft + 5
       ELSE IF p = "inner" THEN 2 * hooksLeft + 4
       ELSE IF p = "after_step" THEN 3
       ELSE IF p = "finish" THEN 2
       ELSE IF p = "invoking" THEN 1
       ELSE 0)

StepsLeft(cur, rem) == Len(rem) + (IF cur # None THEN 1 ELSE 0)

\* C26: when every hook and the invocation routine eventually return or raise,
\* run on a freshly built pipeline eventually finishes (every step of run
\* brings it nearer to its end), and it finishes in one of two ways: a return
\* after the invocation routine has executed, or one aggregated error
C26_RunTerminates ==
    /\ <>(pc \in {"returned", "raised"})
    /\ [][(pc' # pc) =>
            Distance(pc', Len(step_hooks'), StepsLeft(current_step', remaining'))
                < Distance(pc, Len(step_hooks), StepsLeft(current_step, remaining))]_vars
    /\ [](pc # "assert_failed")
    /\ [](pc = "returned" =>
            /\ invokeLog = <<context>>
            /\ invokeResult = Returned
            /\ raised = <<>>)
    /\ [](pc = "raised" => raised # <<>> /\ invokeResult # Returned)
    /\ [][(pc \in {"returned", "raised"}) => pc' = pc /\ raised' = raised]_vars

C26_Witness ==
    /\ pc = "raised"
    /\ Len(order) = MaxOrderLen
    /\ Len(invoked) = MostHooks
    /\ Len(RunFailures) = MaxFailCalls

\* ---------------------------------------------------------------- C27
\* C27: every failure record is attributed to the hook executing when fail was
\* called and filed under the step of that hook: for every step s and record r
\* of failures[s], r.hook.step = s, and the abort cause names a hook of the
\* step at which the pipeline halted
C27_FailuresFiledUnderHookStep ==
    /\ [](\A i \in DOMAIN failures : \A j \in DOMAIN failures[i].val :
            failures[i].val[j].hook[1].step = failures[i].key)
    /\ [](abort # None =>
            /\ current_step # None
            /\ abort[1].hook[1].step = current_step[1]
            /\ current_step[1] = order[Pos])
    /\ [][(failLog' # failLog /\ pc = "in_hook") =>
            /\ failLog'[Len(failLog')].rec.hook = Some(invoked[Len(invoked)].hook)
            /\ failLog'[Len(failLog')].rec.hook[1].step = order[Pos]
            /\ failLog'[Len(failLog')].rec.abort \/
                    failLog'[Len(failLog')].rec \in Range(Get(failures', order[Pos]))]_vars

C27_Witness ==
    /\ pc = "raised"
    /\ Len(order) = 2
    /\ order[1] # order[2]
    /\ Len(failures) = 1
    /\ failures[1].key = order[2]
    /\ abort # None

\* ---------------------------------------------------------------- C28
\* C28 as stated: in a single run every hook of the command is invoked at most
\* once, whatever sequence of steps the pipeline was given
C28_AtMostOnce == NoDuplicates(InvokedHooks)

\* C28, amended: in a single run every hook is invoked at most once for each
\* occurrence of its step in the sequence the pipeline was given, at that
\* occurrence; when no step is repeated every hook is invoked at most once
C28_OncePerOccurrence ==
    /\ \A p \in DOMAIN order : NoDuplicates(InvokedAt(p))
    /\ \A i \in DOMAIN invoked :
          /\ invoked[i].pos \in DOMAIN order
          /\ order[invoked[i].pos] = invoked[i].hook.step
          /\ invoked[i].hook \in command_hooks
    /\ NoDuplicates(order) => NoDuplicates(InvokedHooks)

C28_Witness ==
    /\ pc = "returned"
    /\ order = <<"CHECKS", "CHECKS">>
    /\ Len(invoked) = 4
    /\ InvokedAt(1) = InvokedAt(2)
    /\ ~NoDuplicates(InvokedHooks)

\* ---------------------------------------------------------------- C29
AbsentHooks == {h \in command_hooks : h.step \notin Range(order)}

\* C29: a hook is invoked in a run only if its step appears in the order the
\* pipeline was given: a hook whose step is absent from the order is never
\* invoked, has no failure recorded against it, and does not keep the
\* invocation routine from being called
C29_AbsentStepHooksIgnored ==
    /\ \A i \in DOMAIN invoked : invoked[i].hook.step \in Range(order)
    /\ \A i \in DOMAIN invoked : invoked[i].hook \notin AbsentHooks
    /\ \A i \in DOMAIN failLog : failLog[i].rec.hook[1] \notin AbsentHooks
    /\ \A i \in DOMAIN failures :
          /\ failures[i].key \in Range(order)
          /\ \A j \in DOMAIN failures[i].val :
                failures[i].val[j].hook[1] \notin AbsentHooks
    /\ abort # None => abort[1].hook[1] \notin AbsentHooks
    /\ \A i \in DOMAIN raised :
          raised[i].kind = "HookFailedException" => raised[i].hook[1] \notin AbsentHooks
    /\ (pc \in Finished /\ RunFailures = <<>>) => invokeLog = <<context>>
    /\ (pc \in Finished /\ AbsentHooks = command_hooks) =>
          /\ invoked = <<>>
          /\ failLog = <<>>
          /\ invokeLog = <<context>>

\* C29 witness: the command has a hook of a step the order leaves out and a
\* hook of a step of the order; only the latter ran, and the run returned
C29_Witness ==
    /\ pc = "returned"
    /\ order = <<"CHECKS">>
    /\ AbsentHooks # {}
    /\ Len(invoked) = 1
    /\ invokeLog = <<context>>

\* ---------------------------------------------------------------- C30
FailedSteps == {i \in DOMAIN failures : failures[i].val # <<>>}

\* C30: in the first run of a fresh pipeline, whenever the pipeline is failed
\* when the hook loop exits, the current step is set and is the step in which
\* the failure was recorded, so the assertion before the aggregated raise never
\* fails, and at most one step has a non-empty failure list
C30_CurrentStepSetWhenFailed ==
    /\ (pc = "finish" /\ failed) =>
          /\ current_step # None
          /\ current_step[1] = order[Pos]
          /\ RunFailures # <<>>
          /\ \A i \in DOMAIN RunFailures : RunFailures[i].pos = Pos
          /\ \A i \in DOMAIN failures : failures[i].key = current_step[1]
          /\ abort # None => abort[1].hook[1].step = current_step[1]
    /\ pc # "assert_failed"
    /\ Cardinality(FailedSteps) <= 1

\* C30 witness: the hook loop exits failed, by an abort and a soft failure
\* both recorded in the last of two steps
C30_Witness ==
    /\ pc = "finish"
    /\ failed
    /\ Len(order) = 2
    /\ Pos = 2
    /\ remaining = <<>>
    /\ abort # None
    /\ FailedSteps # {}

\* ---------------------------------------------------------------- C31
EntityKinds == {"member", "user", "role", "channel", "attachment"}

\* C31: a call of _resolve_option that ends in an error leaves the cache of
\* the instance and its bound context as they were before the call; a call of
\* _resolve_option writes the cache only when it returns a supplied primitive
\* value or a looked-up entity, and then writes that value under the option's name
C31_ErrorLeavesInstanceUnchanged ==
    /\ [][(last_call' = "_resolve_option" /\ resolve_result'.kind = "error") =>
            /\ resolved_option_cache' = resolved_option_cache
            /\ current_context' = current_context]_vars
    /\ [][(last_call' = "_resolve_option"
                /\ resolved_option_cache' # resolved_option_cache) =>
            /\ resolve_result'.kind \in {"raw"} \cup EntityKinds
            /\ resolved_option_cache' =
                  [resolved_option_cache EXCEPT ![resolve_arg'.name] = Some(resolve_result')]
            /\ current_context' = current_context]_vars
    /\ [](\A n \in OptionNames : resolved_option_cache[n] # None =>
            resolved_option_cache[n][1].kind \in {"raw"} \cup EntityKinds)

\* C31 witness: with a value cached for y, resolving x failed on its lookup
\* and the cache still holds only y
C31_Witness ==
    /\ last_call = "_resolve_option"
    /\ resolve_result = Error("KeyError")
    /\ resolve_arg.name = "x"
    /\ current_context.bound
    /\ resolved_option_cache["y"] # None
    /\ resolved_option_cache["x"] = None

\* ---------------------------------------------------------------- C32
\* the errors _resolve_option raises on purpose: no context (line 247), no
\* value and no default (line 257), unsupported option type (line 282)
DocumentedErrors == {Error("RuntimeError"), Error("ValueError"), Error("TypeError")}

\* C32: for every option and every bound context, also when the identifier
\* supplied for a reference option is absent from the resolved table of its
\* kind, _resolve_option returns a value or raises one of the documented
\* errors only
C32_DocumentedErrorsOnly ==
    last_call = "_resolve_option" =>
        /\ resolve_result # NoResult
        /\ resolve_result.kind = "error" => resolve_result \in DocumentedErrors

====
